---------------------------- MODULE Spec2Model ----------------------------
(***************************************************************************)
(* Model of busoc/pdh: the UMI packet codec and Decoder (package pdh) and  *)
(* the streaming aggregation of cmd/ppcat (countPackets / runCount).       *)
(*                                                                         *)
(* The specifications share the variables below:                           *)
(*   SpecFilter   evaluates an identity filter on one header;              *)
(*   SpecDecoder  calls Decoder.Decode repeatedly on a source of chunks;   *)
(*   Spec         runs the countPackets goroutine against the consumer     *)
(*                loop of runCount over the unbuffered channel q;          *)
(*   SpecLive     is Spec under the scheduler's fairness, over a Decoder   *)
(*                with a filter and a consumer that may stop receiving;    *)
(*   SpecDiff     runs the loop of runDiff;                                *)
(*   SpecCodec    calls Marshal and decodePacket on one packet and buffer. *)
(***************************************************************************)
EXTENDS Integers, Sequences, FiniteSets, TLC

VARIABLES
    inner,      \* Decoder.inner: the chunks the byte source delivers, one per Read
    rpos,       \* number of chunks already read from inner
    filter,     \* Decoder.filter
    data,       \* the argument the caller passes to Decode
    calls,      \* SpecDecoder: the results of the Decode calls made so far
    hdr,        \* SpecFilter: the header the predicate is evaluated on
    fres,       \* SpecFilter: the predicate's result, <<>> before the evaluation
    i,          \* countPackets: the window width
    pc,         \* countPackets: position of the goroutine
    p,          \* countPackets: the packet being processed
    k,          \* countPackets: byKey(p, i)
    tmp,        \* countPackets: byKey(p, 0) with Time = keys[tmp]
    cz,         \* countPackets: the bucket fetched for k (zero when absent)
    stats,      \* countPackets: map[key]rt.Coze, the open buckets
    keys,       \* countPackets: map[key]time.Time, last window start per identity
    ranged,     \* countPackets: keys the final range loop has already visited
    err,        \* countPackets: the error of the last Decode
    q,          \* the unbuffered channel: the value of a send not yet received
    closed,     \* whether q has been closed
    received,   \* runCount: the buckets received from q, in order
    cons,       \* runCount: position of the consumer loop
    observed,   \* history: the packets Decode has returned to countPackets
    duration,   \* runDiff: the minimum duration (flag -d)
    dpc,        \* runDiff: position of the loop
    dstats,     \* runDiff: stats, map[code]Packet, the last packet per identity
    lines,      \* runDiff: the lines written, in order
    derr,       \* runDiff: the error of the last Decode
    dseen,      \* history: the packets Decode has returned to runDiff
    pkt,        \* SpecCodec: the packet given to Marshal
    buf,        \* SpecCodec: the buffer given to decodePacket
    mres,       \* SpecCodec: the result of Marshal, <<>> before the call
    rres,       \* SpecCodec: the result of decoding Marshal's buffer, <<>> before
    dres        \* SpecCodec: the result of decodePacket(buf, data), <<>> before

decVars == <<inner, rpos, filter, data>>
diffVars == <<duration, dpc, dstats, lines, derr, dseen>>
codecVars == <<pkt, buf, mres, rres, dres>>
harnessVars == <<calls, hdr, fres, diffVars, codecVars>>
aggVars == <<i, pc, p, k, tmp, cz, stats, keys, ranged, err, q, closed, received, cons, observed>>
vars == <<inner, rpos, filter, data, calls, hdr, fres, i, pc, p, k, tmp, cz, stats,
          keys, ranged, err, q, closed, received, cons, observed, diffVars, codecVars>>

(***************************************************************************)
(* Bounds of the model.                                                    *)
(***************************************************************************)
MaxPackets == 3
MaxChunks == 3
MaxCodes == 2

(***************************************************************************)
(* Program constants.                                                      *)
(***************************************************************************)
UMICodeLen == 6
UMIHeaderLen == 25
BufferSize == 4096

\* Errors are modelled by their names; "nil" is the nil error.
Nil == "nil"
EOF == "io.EOF"
ErrShortBuffer == "io.ErrShortBuffer"
ErrEmpty == "empty"
ErrMissing == "no bytes left in buffer"
ErrInvalidCode == "invalid code"

Min(a, b) == IF a < b THEN a ELSE b

(***************************************************************************)
(* encoding/binary on byte sequences (offsets are Go's, 0-based).          *)
(***************************************************************************)
PutUint16BE(v) == << (v \div 256) % 256, v % 256 >>
PutUint32BE(v) == << (v \div 16777216) % 256, (v \div 65536) % 256, (v \div 256) % 256, v % 256 >>
PutUint32LE(v) == << v % 256, (v \div 256) % 256, (v \div 65536) % 256, (v \div 16777216) % 256 >>
Uint16BE(b, off) == b[off + 1] * 256 + b[off + 2]
Uint32BE(b, off) == ((b[off + 1] * 256 + b[off + 2]) * 256 + b[off + 3]) * 256 + b[off + 4]
Uint32LE(b, off) == b[off + 1] + 256 * (b[off + 2] + 256 * (b[off + 3] + 256 * b[off + 4]))

(***************************************************************************)
(* UMIHeader and Packet.                                                   *)
(***************************************************************************)
ZeroCode == [j \in 1..UMICodeLen |-> 0]
ZeroHeader ==
    [Size |-> 0, Code |-> ZeroCode, Orbit |-> 0, State |-> 0, Type |-> 0,
     Len |-> 0, Unit |-> 0, Coarse |-> 0, Fine |-> 0]
ZeroPacket == [UMIHeader |-> ZeroHeader, Data |-> << >>]

encodeHeader(u) ==
    PutUint32LE(u.Size) \o << u.State >> \o PutUint32BE(u.Orbit) \o u.Code
        \o << u.Type >> \o PutUint16BE(u.Unit) \o PutUint32BE(u.Coarse)
        \o << u.Fine >> \o PutUint16BE(u.Len)

\* decodeHeader reading Size in big-endian order
decodeHeaderSizeBE(body) ==
    [Size   |-> Uint32BE(body, 0),
     State  |-> body[5],
     Orbit  |-> Uint32BE(body, 5),
     Code   |-> SubSeq(body, 10, 15),
     Type   |-> body[16],
     Unit   |-> Uint16BE(body, 16),
     Coarse |-> Uint32BE(body, 18),
     Fine   |-> body[23],
     Len    |-> Uint16BE(body, 23)]

decodeHeader(body) ==
    [Size   |-> Uint32LE(body, 0),
     State  |-> body[5],
     Orbit  |-> Uint32BE(body, 5),
     Code   |-> SubSeq(body, 10, 15),
     Type   |-> body[16],
     Unit   |-> Uint16BE(body, 16),
     Coarse |-> Uint32BE(body, 18),
     Fine   |-> body[23],
     Len    |-> Uint16BE(body, 23)]

\* copy(dst, src) into a zeroed dst of length n: the bytes of dst afterwards.
CopyInto(n, src) == [j \in 1..n |-> IF j <= Len(src) THEN src[j] ELSE 0]

decodePacket(buffer, d) ==
    IF Len(buffer) < UMIHeaderLen
    THEN [p |-> ZeroPacket, err |-> ErrShortBuffer]
    ELSE LET h == decodeHeader(buffer)
             rest == SubSeq(buffer, UMIHeaderLen + 1, Len(buffer))
         IN  IF ~d
             THEN [p |-> [UMIHeader |-> h, Data |-> << >>], err |-> Nil]
             ELSE IF h.Len + UMIHeaderLen > Len(buffer)
                  THEN [p |-> [UMIHeader |-> h, Data |-> << >>], err |-> ErrShortBuffer]
                  ELSE [p   |-> [UMIHeader |-> h, Data |-> CopyInto(h.Len, rest)],
                        err |-> IF Min(h.Len, Len(rest)) < h.Len THEN ErrMissing ELSE Nil]

Marshal(pk) ==
    IF Len(pk.Data) = 0
    THEN [buf |-> << >>, err |-> ErrEmpty]
    ELSE [buf |-> encodeHeader(pk.UMIHeader) \o CopyInto(pk.UMIHeader.Len, pk.Data),
          err |-> Nil]

(***************************************************************************)
(* Identity filters.  A filter is a record naming its constructor and the  *)
(* values the closure captured; ApplyFilter is the call of the closure.    *)
(***************************************************************************)
RECURSIVE CodesLoop(_, _)
\* the range loop of the closure returned by WithCodes, over the codes left
CodesLoop(rest, u) ==
    IF rest = << >>
    THEN [keep |-> FALSE, err |-> Nil]
    ELSE IF Len(Head(rest)) # UMICodeLen
         THEN [keep |-> FALSE, err |-> ErrInvalidCode]
         ELSE IF Head(rest) = u.Code
              THEN [keep |-> TRUE, err |-> Nil]
              ELSE CodesLoop(Tail(rest), u)

WithCodes(vs) == [kind |-> "codes", vs |-> vs, o |-> 0]
WithOrigin(o) == [kind |-> "origin", vs |-> << >>, o |-> o]
AcceptAll == [kind |-> "all", vs |-> << >>, o |-> 0]
NilFilter == [kind |-> "nil", vs |-> << >>, o |-> 0]

ApplyFilter(f, u) ==
    CASE f.kind = "codes"  -> CodesLoop(f.vs, u)
      [] f.kind = "origin" -> [keep |-> (f.o = 0 \/ f.o = u.Code[1]), err |-> Nil]
      [] OTHER             -> [keep |-> TRUE, err |-> Nil]

\* NewDecoder: the filter the Decoder holds for the filter it is given.
NewDecoder(f) == IF f.kind = "nil" THEN AcceptAll ELSE f

(***************************************************************************)
(* Decoder.Decode.  Read delivers the next chunk of inner (at most         *)
(* BufferSize bytes of it), or io.EOF when none is left.  The result holds *)
(* the packet, the error and the read position after the call; filterErr  *)
(* is a history value: the read position at which the filter first        *)
(* returned an error during the call (0 when it never did).                *)
(***************************************************************************)
RECURSIVE DecodeFrom(_, _, _, _, _)
DecodeFrom(src, pos, f, d, ferr) ==
    IF pos >= Len(src)
    THEN [p |-> ZeroPacket, err |-> EOF, pos |-> pos, filterErr |-> ferr]
    ELSE LET buffer == SubSeq(src[pos + 1], 1, Min(Len(src[pos + 1]), BufferSize))
             r == decodePacket(buffer, d)
         IN  IF r.err # Nil
             THEN [p |-> r.p, err |-> r.err, pos |-> pos + 1, filterErr |-> ferr]
             ELSE LET fr == ApplyFilter(f, r.p.UMIHeader)
                      fe == IF ferr = 0 /\ fr.err # Nil THEN pos + 1 ELSE ferr
                  IN  IF ~fr.keep
                      THEN DecodeFrom(src, pos + 1, f, d, fe)
                      ELSE [p |-> r.p, err |-> fr.err, pos |-> pos + 1, filterErr |-> fe]

\* Decode without the filter: every decoded packet is returned.
DecodeUnfiltered(src, pos, f, d) == DecodeFrom(src, pos, AcceptAll, d, 0)

Decode(src, pos, f, d) == DecodeFrom(src, pos, f, d, 0)

(***************************************************************************)
(* Inputs: the codes, headers and chunks the specifications draw from.     *)
(***************************************************************************)
CodeA == << 170, 187, 204, 221, 238, 255 >>
CodeB == << 170, 1, 2, 3, 4, 5 >>
CodeC == << 16, 32, 48, 64, 80, 96 >>
ShortCode == << 170, 187 >>
LongCode == << 170, 187, 204, 221, 238, 255, 0 >>

SeqsUpTo(S, n) == UNION { [1..m -> S] : m \in 0..n }

Payload(n) == [j \in 1..n |-> j]

MkPacket(code, coarse, fine, n) ==
    [UMIHeader |-> [Size |-> UMIHeaderLen + n, Code |-> code, Orbit |-> 70000,
                    State |-> 2, Type |-> 13, Len |-> n, Unit |-> 300,
                    Coarse |-> coarse, Fine |-> fine],
     Data |-> Payload(n)]

\* The record the transport delivers for a packet: header, then payload.
Wire(pk) == encodeHeader(pk.UMIHeader) \o pk.Data

\* A record cut short inside its header.
Truncated == SubSeq(Wire(MkPacket(CodeA, 0, 0, 0)), 1, 10)

(***************************************************************************)
(* SpecFilter: one evaluation of an identity filter on a header.           *)
(***************************************************************************)
FilterCodes == { CodeA, CodeB, ShortCode, LongCode }
FilterInputs ==
    { WithCodes(v) : v \in SeqsUpTo(FilterCodes, MaxCodes) }
        \cup { WithOrigin(o) : o \in { 0, 16, 170 } } \cup { NilFilter }
FilterHeaders == { MkPacket(c, 0, 0, 0).UMIHeader : c \in { CodeA, CodeB, CodeC } }

DiffIdle ==
    /\ duration = 0
    /\ dpc = "idle"
    /\ dstats = << >>
    /\ lines = << >>
    /\ derr = Nil
    /\ dseen = << >>

CodecIdle ==
    /\ pkt = ZeroPacket
    /\ buf = << >>
    /\ mres = << >>
    /\ rres = << >>
    /\ dres = << >>

AggIdle ==
    /\ i = 0
    /\ pc = "idle"
    /\ p = ZeroPacket
    /\ k = << >>
    /\ tmp = << >>
    /\ cz = << >>
    /\ stats = << >>
    /\ keys = << >>
    /\ ranged = {}
    /\ err = Nil
    /\ q = << >>
    /\ closed = FALSE
    /\ received = << >>
    /\ cons = "idle"
    /\ observed = << >>

InitFilter ==
    /\ filter \in { NewDecoder(f) : f \in FilterInputs }
    /\ hdr \in FilterHeaders
    /\ fres = << >>
    /\ inner = << >>
    /\ rpos = 0
    /\ data = FALSE
    /\ calls = << >>
    /\ AggIdle
    /\ DiffIdle
    /\ CodecIdle

\* d.filter(p.UMIHeader)
Evaluate ==
    /\ fres = << >>
    /\ fres' = << ApplyFilter(filter, hdr) >>
    /\ UNCHANGED << decVars, calls, hdr, aggVars, diffVars, codecVars >>

NextFilter == Evaluate

SpecFilter == InitFilter /\ [][NextFilter]_vars

(***************************************************************************)
(* SpecDecoder: a caller that keeps calling Decode on one Decoder.         *)
(***************************************************************************)
DecPackets == { MkPacket(CodeA, 0, 0, 0), MkPacket(CodeB, 50, 0, 3), MkPacket(CodeC, 150, 7, 0) }
DecChunks == { Wire(pk) : pk \in DecPackets } \cup { Truncated }
DecFilters ==
    { WithCodes(v) : v \in SeqsUpTo({ CodeA, CodeC, ShortCode }, MaxCodes) }
        \cup { WithOrigin(o) : o \in { 0, 170 } } \cup { NilFilter }

InitDecoder ==
    /\ inner \in SeqsUpTo(DecChunks, MaxChunks)
    /\ filter \in { NewDecoder(f) : f \in DecFilters }
    /\ data \in BOOLEAN
    /\ rpos = 0
    /\ calls = << >>
    /\ hdr = ZeroHeader
    /\ fres = << >>
    /\ AggIdle
    /\ DiffIdle
    /\ CodecIdle

\* p, err := d.Decode(data)
DecodeCall ==
    /\ Len(calls) <= Len(inner)
    /\ LET r == Decode(inner, rpos, filter, data)
       IN  /\ calls' = Append(calls, [p |-> r.p, err |-> r.err, from |-> rpos,
                                      to |-> r.pos, filterErr |-> r.filterErr])
           /\ rpos' = r.pos
    /\ UNCHANGED << inner, filter, data, hdr, fres, aggVars, diffVars, codecVars >>

NextDecoder == DecodeCall

SpecDecoder == InitDecoder /\ [][NextDecoder]_vars

(***************************************************************************)
(* Time.  A time.Time is the number of ticks since the zero time; the      *)
(* timestamp codec (timutil.Join5) places a header's coarse and fine time  *)
(* after an epoch that lies after the zero time.                           *)
(***************************************************************************)
Epoch == 256000
FineRes == 256
ZeroTime == 0
IsZero(t) == t = ZeroTime
Timestamp(u) == Epoch + u.Coarse * FineRes + u.Fine
Truncate(t, d) == IF d <= 0 THEN t ELSE t - (t % d)

(***************************************************************************)
(* Go maps as functions; a missing key reads as the zero value.            *)
(***************************************************************************)
EmptyMap == [x \in {} |-> 0]
MapGet(m, key, zero) == IF key \in DOMAIN m THEN m[key] ELSE zero
MapSet(m, key, v) == [x \in DOMAIN m \cup { key } |-> IF x = key THEN v ELSE m[x]]
MapDelete(m, key) == [x \in DOMAIN m \ { key } |-> m[x]]

(***************************************************************************)
(* cmd/ppcat: key, coze and byKey.  Ids is a history field of a bucket:    *)
(* the positions in observed of the packets accumulated into it.           *)
(***************************************************************************)
ZeroKey == [Origin |-> 0, Code |-> ZeroCode, Time |-> ZeroTime]
ZeroCoze == [Count |-> 0, Size |-> 0, StartTime |-> ZeroTime, EndTime |-> ZeroTime, Ids |-> {}]
MkCoze(c, origin) == [Coze |-> c, origin |-> origin]

\* byKey truncating for every width, zero included
byKeyAnyWidth(pk, d) ==
    [Origin |-> pk.UMIHeader.Code[1],
     Code   |-> pk.UMIHeader.Code,
     Time   |-> Truncate(Timestamp(pk.UMIHeader), d)]

byKey(pk, d) ==
    [Origin |-> pk.UMIHeader.Code[1],
     Code   |-> pk.UMIHeader.Code,
     Time   |-> IF d > 0 THEN Truncate(Timestamp(pk.UMIHeader), d) ELSE ZeroTime]

\* Accumulate assigning the size instead of adding to it
AccumulateSizeAssigned(c, pk, id) ==
    [Count     |-> c.Count + 1,
     Size      |-> pk.UMIHeader.Len,
     EndTime   |-> Timestamp(pk.UMIHeader),
     StartTime |-> IF IsZero(c.StartTime) THEN Timestamp(pk.UMIHeader) ELSE c.StartTime,
     Ids       |-> c.Ids \cup { id }]

\* Accumulate overwriting the start time on every packet
AccumulateStartOverwritten(c, pk, id) ==
    [Count     |-> c.Count + 1,
     Size      |-> c.Size + pk.UMIHeader.Len,
     EndTime   |-> Timestamp(pk.UMIHeader),
     StartTime |-> Timestamp(pk.UMIHeader),
     Ids       |-> c.Ids \cup { id }]

\* line 245 never finding a previous window
RolloverNever(t) == FALSE

\* line 245: the identity has a previous window start
Rollover(t) == ~IsZero(t.Time)

\* lines 254-259: the bucket c after the packet pk, observed at position id
Accumulate(c, pk, id) ==
    [Count     |-> c.Count + 1,
     Size      |-> c.Size + pk.UMIHeader.Len,
     EndTime   |-> Timestamp(pk.UMIHeader),
     StartTime |-> IF IsZero(c.StartTime) THEN Timestamp(pk.UMIHeader) ELSE c.StartTime,
     Ids       |-> c.Ids \cup { id }]

(***************************************************************************)
(* Spec: countPackets(d, i) and the range loop of runCount.                *)
(***************************************************************************)
Window == 100 * FineRes
Widths == { 0, Window }
AggPackets ==
    { MkPacket(CodeA, 0, 0, 0), MkPacket(CodeA, 50, 0, 3), MkPacket(CodeA, 150, 0, 0),
      MkPacket(CodeB, 0, 0, 3), MkPacket(CodeB, 50, 0, 0), MkPacket(CodeB, 150, 0, 3),
      MkPacket(CodeA, 1000, 0, 0), MkPacket(CodeA, 1010, 0, 0) }
AggChunks == { Wire(pk) : pk \in AggPackets } \cup { Truncated }

Init ==
    /\ inner \in SeqsUpTo(AggChunks, MaxPackets)
    /\ rpos = 0
    /\ filter = NewDecoder(NilFilter)
    /\ data = FALSE
    /\ calls = << >>
    /\ hdr = ZeroHeader
    /\ fres = << >>
    /\ i \in Widths
    /\ pc = "decode"
    /\ p = ZeroPacket
    /\ k = ZeroKey
    /\ tmp = ZeroKey
    /\ cz = ZeroCoze
    /\ stats = EmptyMap
    /\ keys = EmptyMap
    /\ ranged = {}
    /\ err = Nil
    /\ q = << >>
    /\ closed = FALSE
    /\ received = << >>
    /\ cons = "range"
    /\ observed = << >>
    /\ DiffIdle
    /\ CodecIdle

\* lines 232-246: Decode, the lookup of the bucket and, on a rollover, the send
\* every error of Decode taken for the end of the stream
AfterErrorFlush(e) == "sweep"

\* lines 233-238: break to the final range on io.EOF, return on another error
AfterError(e) == IF e = EOF THEN "sweep" ELSE "close"

Fetch ==
    /\ pc = "decode"
    /\ LET r == Decode(inner, rpos, filter, data)
           nk == byKey(r.p, i)
           t0 == byKey(r.p, 0)
           nt == [t0 EXCEPT !.Time = MapGet(keys, t0, ZeroTime)]
       IN  /\ rpos' = r.pos
           /\ err' = r.err
           /\ p' = r.p
           /\ IF r.err # Nil
              THEN /\ pc' = AfterError(r.err)
                   /\ UNCHANGED << k, tmp, cz, q, observed >>
              ELSE /\ observed' = Append(observed, r.p)
                   /\ k' = nk
                   /\ cz' = MapGet(stats, nk, ZeroCoze)
                   /\ IF nk \in DOMAIN stats
                      THEN /\ pc' = "accum"
                           /\ UNCHANGED << tmp, q >>
                      ELSE /\ tmp' = nt
                           /\ IF Rollover(nt)
                              THEN /\ q' = << MkCoze(MapGet(stats, nt, ZeroCoze), nt) >>
                                   /\ pc' = "emit"
                              ELSE /\ pc' = "setkey"
                                   /\ UNCHANGED q
    /\ UNCHANGED << inner, filter, data, harnessVars, i, stats, keys, ranged, closed,
                    received, cons >>

\* the send of line 246 without the delete of line 247
DeleteKeeps ==
    /\ pc = "emit"
    /\ q = << >>
    /\ pc' = "setkey"
    /\ UNCHANGED << decVars, harnessVars, i, p, k, tmp, cz, stats, keys, ranged, err, q,
                    closed, received, cons, observed >>

\* line 247 run while the send of line 246 is still pending
DeleteWithoutWaiting ==
    /\ pc = "emit"
    /\ stats' = MapDelete(stats, tmp)
    /\ pc' = "setkey"
    /\ UNCHANGED << decVars, harnessVars, i, p, k, tmp, cz, keys, ranged, err, q, closed,
                    received, cons, observed >>

\* line 247, once the send of line 246 has been received
Delete ==
    /\ pc = "emit"
    /\ q = << >>
    /\ stats' = MapDelete(stats, tmp)
    /\ pc' = "setkey"
    /\ UNCHANGED << decVars, harnessVars, i, p, k, tmp, cz, keys, ranged, err, q, closed,
                    received, cons, observed >>

\* lines 249-251
SetKey ==
    /\ pc = "setkey"
    /\ tmp' = [tmp EXCEPT !.Time = ZeroTime]
    /\ keys' = MapSet(keys, tmp', k.Time)
    /\ pc' = "accum"
    /\ UNCHANGED << decVars, harnessVars, i, p, k, cz, stats, ranged, err, q, closed,
                    received, cons, observed >>

\* lines 254-260
Accum ==
    /\ pc = "accum"
    /\ cz' = Accumulate(cz, p, Len(observed))
    /\ stats' = MapSet(stats, k, cz')
    /\ pc' = "decode"
    /\ UNCHANGED << decVars, harnessVars, i, p, k, tmp, keys, ranged, err, q, closed,
                    received, cons, observed >>

\* lines 262-264: the next bucket of the final range loop is sent
Sweep ==
    /\ pc = "sweep"
    /\ q = << >>
    /\ \E key \in DOMAIN stats \ ranged :
          /\ q' = << MkCoze(stats[key], key) >>
          /\ ranged' = ranged \cup { key }
    /\ UNCHANGED << decVars, harnessVars, i, pc, p, k, tmp, cz, stats, keys, err, closed,
                    received, cons, observed >>

\* the final range loop left before every bucket was sent
SweepEndEarly ==
    /\ pc = "sweep"
    /\ q = << >>
    /\ pc' = "close"
    /\ UNCHANGED << decVars, harnessVars, i, p, k, tmp, cz, stats, keys, ranged, err, q,
                    closed, received, cons, observed >>

\* the final range loop ends
SweepEnd ==
    /\ pc = "sweep"
    /\ q = << >>
    /\ DOMAIN stats \subseteq ranged
    /\ pc' = "close"
    /\ UNCHANGED << decVars, harnessVars, i, p, k, tmp, cz, stats, keys, ranged, err, q,
                    closed, received, cons, observed >>

\* countPackets returning without the deferred close(q)
CloseSkipped ==
    /\ pc = "close"
    /\ pc' = "done"
    /\ UNCHANGED << decVars, harnessVars, i, p, k, tmp, cz, stats, keys, ranged, err, q,
                    closed, received, cons, observed >>

\* line 227: the deferred close(q)
Close ==
    /\ pc = "close"
    /\ closed' = TRUE
    /\ pc' = "done"
    /\ UNCHANGED << decVars, harnessVars, i, p, k, tmp, cz, stats, keys, ranged, err, q,
                    received, cons, observed >>

\* runCount lines 151-163: one iteration of the range loop over the channel
Recv ==
    /\ cons = "range"
    /\ q # << >>
    /\ received' = Append(received, q[1])
    /\ q' = << >>
    /\ UNCHANGED << decVars, harnessVars, i, pc, p, k, tmp, cz, stats, keys, ranged, err,
                    closed, cons, observed >>

\* runCount lines 151, 165: the range loop ends on the closed channel
RangeEnd ==
    /\ cons = "range"
    /\ closed
    /\ q = << >>
    /\ cons' = "done"
    /\ UNCHANGED << decVars, harnessVars, i, pc, p, k, tmp, cz, stats, keys, ranged, err,
                    q, closed, received, observed >>

Next ==
    \/ Fetch
    \/ Delete
    \/ SetKey
    \/ Accum
    \/ Sweep
    \/ SweepEnd
    \/ Close
    \/ Recv
    \/ RangeEnd

Spec == Init /\ [][Next]_vars

(***************************************************************************)
(* Claims about the identity filters and the Decoder.                      *)
(***************************************************************************)
HasMalformed(vs) == \E j \in 1..Len(vs) : Len(vs[j]) # UMICodeLen
Contains(vs, code) == \E j \in 1..Len(vs) : vs[j] = code

\* C3: a WithCodes predicate over a set holding a code that is not 6 bytes long
\* fails with the format error whatever the position of that code and the header;
\* over 6-byte codes only it keeps exactly the headers whose code is in the set.
C3_MalformedCodeAlwaysFails ==
    (fres # << >> /\ filter.kind = "codes") =>
        IF HasMalformed(filter.vs)
        THEN fres[1].err = ErrInvalidCode
        ELSE fres[1].err = Nil /\ (fres[1].keep <=> Contains(filter.vs, hdr.Code))

\* The packet a well-formed chunk was made from.
SentPacket(chunk) == CHOOSE pk \in DecPackets : Wire(pk) = chunk
WellFormedSource == \A j \in 1..Len(inner) : \E pk \in DecPackets : Wire(pk) = inner[j]
FilterNeverErrs ==
    \A j \in 1..Len(inner) : ApplyFilter(filter, SentPacket(inner[j]).UMIHeader).err = Nil
Accepted(chunk) == ApplyFilter(filter, SentPacket(chunk).UMIHeader).keep
\* What Decode(data) is to return for a packet sent.
Returned(pk) == [UMIHeader |-> pk.UMIHeader, Data |-> IF data THEN pk.Data ELSE << >>]

\* C1: over a source of well-formed packets and a filter that never fails, the
\* successive Decode calls return the accepted packets, in their order, each once,
\* and io.EOF from then on.
C1_FilterTransparency ==
    (WellFormedSource /\ FilterNeverErrs) =>
        LET S == SelectSeq(inner, Accepted)
        IN  \A j \in 1..Len(calls) :
               IF j <= Len(S)
               THEN calls[j].err = Nil /\ calls[j].p = Returned(SentPacket(S[j]))
               ELSE calls[j].err = EOF /\ calls[j].p = ZeroPacket

\* a source of three packets whose second is rejected, read to the end
C1_Witness ==
    /\ WellFormedSource
    /\ FilterNeverErrs
    /\ Len(inner) = 3
    /\ Accepted(inner[1])
    /\ ~Accepted(inner[2])
    /\ Accepted(inner[3])
    /\ data
    /\ Len(calls) = 3
    /\ calls[2].p.UMIHeader.Code = SentPacket(inner[3]).UMIHeader.Code
    /\ calls[3].err = EOF

\* C2: a Decode call during which the filter returned an error returns that error
\* and reads nothing after the chunk the filter failed on.
C2_FilterErrorReturned ==
    \A j \in 1..Len(calls) :
        calls[j].filterErr # 0 =>
            calls[j].err = ErrInvalidCode /\ calls[j].to = calls[j].filterErr

(***************************************************************************)
(* Claims about countPackets.  The window of a packet is computed here     *)
(* from its timestamp and the width, not through byKey.                    *)
(***************************************************************************)
Obs == 1..Len(observed)
IdOf(j) == observed[j].UMIHeader.Code
TimeOf(j) == Timestamp(observed[j].UMIHeader)
WindowOf(j) == IF i > 0 THEN (TimeOf(j) \div i) * i ELSE ZeroTime
KeyMembers(code, w) == { j \in Obs : IdOf(j) = code /\ WindowOf(j) = w }
Identities == { IdOf(j) : j \in Obs }
SetMin(S) == CHOOSE x \in S : \A y \in S : x <= y
SetMax(S) == CHOOSE x \in S : \A y \in S : x >= y
MinTime(K) == SetMin({ TimeOf(j) : j \in K })
MaxTime(K) == SetMax({ TimeOf(j) : j \in K })
RECURSIVE SumLen(_)
SumLen(S) ==
    IF S = {}
    THEN 0
    ELSE LET j == CHOOSE x \in S : TRUE
         IN  observed[j].UMIHeader.Len + SumLen(S \ { j })

\* every bucket sent so far, the one whose send is pending included
Emitted == received \o q
\* the source reported end-of-stream and the producer has finished
StreamEnded == pc = "done" /\ err = EOF

\* no identity comes back to a window it has left
NoWindowReturn ==
    \A j1, j2, j3 \in Obs :
        (j1 < j2 /\ j2 < j3 /\ IdOf(j1) = IdOf(j2) /\ IdOf(j2) = IdOf(j3)
            /\ WindowOf(j1) = WindowOf(j3)) => WindowOf(j2) = WindowOf(j1)
\* the packets of each identity arrive in non-decreasing timestamp order
TimesNonDecreasing ==
    \A j1, j2 \in Obs : (j1 < j2 /\ IdOf(j1) = IdOf(j2)) => TimeOf(j1) <= TimeOf(j2)

\* one bucket per observed key, holding the count and the size of its packets
BucketsMatchKeys ==
    /\ \A j \in Obs :
          LET w == [Origin |-> IdOf(j)[1], Code |-> IdOf(j), Time |-> WindowOf(j)]
              B == { e \in 1..Len(received) : received[e].origin = w }
              K == KeyMembers(IdOf(j), WindowOf(j))
          IN  /\ Cardinality(B) = 1
              /\ \A e \in B : /\ received[e].Coze.Count = Cardinality(K)
                              /\ received[e].Coze.Size = SumLen(K)
    /\ \A e \in 1..Len(received) :
          KeyMembers(received[e].origin.Code, received[e].origin.Time) # {}

\* C4 (as stated): after end-of-stream every (identity, windowStart) key has exactly
\* one emitted bucket, with the count and the summed Len of the key's packets.
C4_OneBucketPerKey == StreamEnded => BucketsMatchKeys

\* C4 (amended): the same, for the sequences in which no identity returns to a
\* window it has left.
C4_OneBucketPerKeyNoReturn == (StreamEnded /\ NoWindowReturn) => BucketsMatchKeys

\* three packets of one identity, two windows: buckets of count 2 (size 3) and 1
C4_Witness ==
    /\ StreamEnded
    /\ NoWindowReturn
    /\ i = Window
    /\ Len(observed) = 3
    /\ Len(received) = 2
    /\ received[1].Coze.Count = 2
    /\ received[1].Coze.Size = 3
    /\ received[2].Coze.Count = 1

\* a bucket's start and end are the minimum and maximum timestamp of its key
StartEndAreMinMax(b) ==
    LET K == KeyMembers(b.origin.Code, b.origin.Time)
    IN  /\ K # {}
        /\ b.Coze.StartTime = MinTime(K)
        /\ b.Coze.EndTime = MaxTime(K)

\* C5 (as stated): every emitted bucket has startTime the minimum and endTime the
\* maximum of the timestamps of the packets observed for its key.
C5_StartEndMinMax ==
    StreamEnded => \A e \in 1..Len(received) : StartEndAreMinMax(received[e])

\* C5 (amended): every emitted bucket has startTime the timestamp of the first and
\* endTime that of the last packet accumulated into it, all of its key; these are
\* the minimum and maximum for the key when each identity's timestamps arrive in
\* non-decreasing order.
C5_StartFirstEndLast ==
    /\ \A e \in 1..Len(Emitted) :
          LET b == Emitted[e]
          IN  /\ b.Coze.Ids # {}
              /\ b.Coze.Ids \subseteq KeyMembers(b.origin.Code, b.origin.Time)
              /\ b.Coze.StartTime = TimeOf(SetMin(b.Coze.Ids))
              /\ b.Coze.EndTime = TimeOf(SetMax(b.Coze.Ids))
    /\ TimesNonDecreasing => \A e \in 1..Len(Emitted) : StartEndAreMinMax(Emitted[e])

\* a bucket of two packets with different timestamps, received in order
C5_Witness ==
    /\ TimesNonDecreasing
    /\ \E e \in 1..Len(received) :
          /\ received[e].Coze.Count = 2
          /\ received[e].Coze.StartTime < received[e].Coze.EndTime

\* C6 (as stated): with a non-zero width, for two packets of one identity with
\* timestamps T1 < T2 in different windows, a bucket for T1's window is emitted
\* strictly before the bucket containing the T2 packet.
C6_RolloverOrder ==
    i > 0 =>
        \A j1, j2 \in Obs :
            (IdOf(j1) = IdOf(j2) /\ TimeOf(j1) < TimeOf(j2) /\ WindowOf(j1) # WindowOf(j2)) =>
                \A e2 \in 1..Len(Emitted) :
                    j2 \in Emitted[e2].Coze.Ids =>
                        \E e1 \in 1..(e2 - 1) :
                            /\ Emitted[e1].origin.Code = IdOf(j1)
                            /\ Emitted[e1].origin.Time = WindowOf(j1)

\* C6 (amended): the same when the T1 packet precedes the T2 packet in the stream;
\* the earlier bucket is the one holding the T1 packet.
C6_RolloverOrderInStream ==
    i > 0 =>
        \A j1, j2 \in Obs :
            (j1 < j2 /\ IdOf(j1) = IdOf(j2) /\ TimeOf(j1) < TimeOf(j2)
                /\ WindowOf(j1) # WindowOf(j2)) =>
                \A e2 \in 1..Len(Emitted) :
                    j2 \in Emitted[e2].Coze.Ids =>
                        \E e1 \in 1..(e2 - 1) :
                            /\ Emitted[e1].origin.Code = IdOf(j1)
                            /\ Emitted[e1].origin.Time = WindowOf(j1)
                            /\ j1 \in Emitted[e1].Coze.Ids

\* two identities; the later window of one of them is emitted by the final sweep
C6_Witness ==
    /\ StreamEnded
    /\ i > 0
    /\ Cardinality(Identities) = 2
    /\ \E j1, j2 \in Obs :
          /\ j1 < j2
          /\ IdOf(j1) = IdOf(j2)
          /\ TimeOf(j1) < TimeOf(j2)
          /\ WindowOf(j1) # WindowOf(j2)
          /\ \E e2 \in 2..Len(received) : j2 \in received[e2].Coze.Ids

\* the scenario of the claim: one identity, coarse times 0, 50, 150, width 100
Scenario7 ==
    /\ i = Window
    /\ err = EOF
    /\ [j \in Obs |-> observed[j].UMIHeader.Code] = << CodeA, CodeA, CodeA >>
    /\ [j \in Obs |-> observed[j].UMIHeader.Coarse] = << 0, 50, 150 >>
Scenario7Result ==
    /\ Len(received) = 2
    /\ received[1].Coze.Count = 2
    /\ received[1].Coze.Ids = { 1, 2 }
    /\ received[1].origin.Time = Epoch
    /\ received[2].Coze.Count = 1
    /\ received[2].Coze.Ids = { 3 }
    /\ received[2].origin.Time = Epoch + Window

EagerFlushStep ==
    /\ (pc = "decode" /\ pc' = "emit") =>
          /\ tmp'.Code = p'.UMIHeader.Code
          /\ tmp' # k'
          /\ tmp' \in DOMAIN stats
          /\ q' = << MkCoze(stats[tmp'], tmp') >>
          /\ stats[tmp'].Count = Cardinality(stats[tmp'].Ids)
          /\ stats[tmp'].Ids =
                { j \in Obs : IdOf(j) = tmp'.Code /\ j >= SetMin(stats[tmp'].Ids) }
          /\ Len(observed') \notin stats[tmp'].Ids
          /\ stats' = stats
          /\ keys' = keys
    /\ (pc = "emit" /\ pc' # "emit") =>
          /\ pc' = "setkey"
          /\ received # << >>
          /\ received[Len(received)] = MkCoze(stats[tmp], tmp)
          /\ DOMAIN stats' = DOMAIN stats \ { tmp }
          /\ k \notin DOMAIN stats'
          /\ keys' = keys
    /\ (pc = "setkey" /\ pc' # "setkey") =>
          /\ pc' = "accum"
          /\ MapGet(keys', [k EXCEPT !.Time = ZeroTime], ZeroTime) = k.Time
          /\ k \notin DOMAIN stats
          /\ stats' = stats
    /\ (pc = "accum" /\ pc' # "accum") =>
          /\ pc' = "decode"
          /\ keys' = keys
          /\ \A e \in 1..Len(Emitted) : Len(observed) \notin Emitted[e].Coze.Ids
          /\ k \in DOMAIN stats'
          /\ Len(observed) \in stats'[k].Ids
          /\ k \notin DOMAIN stats => stats'[k].Count = 1
    /\ (pc = "close" /\ pc' = "done" /\ Scenario7) => Scenario7Result

\* C7: on a rollover the open bucket of the identity is sent as it stands, without
\* the triggering packet, then deleted, then lastWindowStart is set, and only then
\* is the triggering packet accumulated into a new bucket; for coarse times 0, 50,
\* 150 and width 100 a bucket of count 2 is followed at end of stream by one of
\* count 1.
C7_EagerFlushOrder == [][EagerFlushStep]_vars

\* the scenario, run to the end
C7_Witness == pc = "done" /\ Scenario7 /\ Scenario7Result /\ cons = "done"

\* C8: once the queue is closed after end-of-stream, every bucket of the open map
\* has been received exactly once, and no bucket was emitted twice.
C8_FinalFlush ==
    (closed /\ err = EOF) =>
        /\ q = << >>
        /\ \A key \in DOMAIN stats :
              Cardinality({ e \in 1..Len(received) :
                              received[e] = MkCoze(stats[key], key) }) = 1
        /\ \A e \in 1..Len(received) : received[e].Coze.Ids # {}
        /\ \A e1, e2 \in 1..Len(received) :
              e1 # e2 => received[e1].Coze.Ids \cap received[e2].Coze.Ids = {}

\* one bucket emitted by a rollover, two by the final sweep
C8_Witness ==
    /\ closed
    /\ err = EOF
    /\ Cardinality(DOMAIN stats) = 2
    /\ Len(received) = 3

\* the example of the claim: two packets of AA BB CC DD EE FF at 1000 and 1010
Example9 ==
    [j \in Obs |-> observed[j].UMIHeader] =
        << MkPacket(CodeA, 1000, 0, 0).UMIHeader, MkPacket(CodeA, 1010, 0, 0).UMIHeader >>
Example9Result ==
    received =
        << MkCoze([Count |-> 2, Size |-> 0,
                   StartTime |-> Epoch + 1000 * FineRes,
                   EndTime |-> Epoch + 1010 * FineRes,
                   Ids |-> { 1, 2 }],
                  [Origin |-> 170, Code |-> CodeA, Time |-> ZeroTime]) >>

\* C9: with width 0 nothing is emitted before end-of-stream, and at end-of-stream
\* exactly one bucket per identity seen is emitted.
C9_ZeroWidth ==
    i <= 0 =>
        /\ err # EOF => Emitted = << >>
        /\ pc # "emit"
        /\ StreamEnded =>
              /\ Len(received) = Cardinality(Identities)
              /\ \A c \in Identities :
                    Cardinality({ e \in 1..Len(received) : received[e].origin.Code = c }) = 1
        /\ (StreamEnded /\ Example9) => Example9Result

\* the example, run to the end
C9_Witness == i = 0 /\ StreamEnded /\ Example9 /\ Example9Result

\* C10: between packets the open map holds at most one bucket per identity, whose
\* window start is the one recorded in keys for the identity.
C10_OneOpenBucketPerIdentity ==
    pc \in { "decode", "sweep", "close", "done" } =>
        \A k1 \in DOMAIN stats :
            /\ \A k2 \in DOMAIN stats : k2.Code = k1.Code => k2 = k1
            /\ k1.Time = MapGet(keys, [k1 EXCEPT !.Time = ZeroTime], ZeroTime)

\* an identity that went to a later window and back to the earlier one
C10_Witness ==
    /\ pc = "decode"
    /\ i = Window
    /\ Len(observed) = 3
    /\ Cardinality(Identities) = 1
    /\ WindowOf(1) < WindowOf(2)
    /\ WindowOf(3) = WindowOf(1)
    /\ Cardinality(DOMAIN stats) = 1
    /\ Len(received) = 2

-----------------------------------------------------------------------------
(* runDiff: the gap detector.                                              *)

\* Time.Sub
Sub(t, f) == t - f

EmitsStrict(d, delta) == d <= 0 \/ delta > d

\* the test guarding the line: *duration <= 0 || delta >= *duration
Emits(d, delta) == d <= 0 \/ delta >= d

RememberFirst(m, pk) == IF pk.UMIHeader.Code \in DOMAIN m THEN m ELSE MapSet(m, pk.UMIHeader.Code, pk)

\* stats[p.Code] = p
Remember(m, pk) == MapSet(m, pk.UMIHeader.Code, pk)

\* the gap between two packets, in ticks of the fine time
Gap == 50 * FineRes

Durations == { 0 - 1, 0, Gap }

DiffPackets ==
    { MkPacket(CodeA, 0, 0, 0), MkPacket(CodeA, 50, 0, 0), MkPacket(CodeA, 150, 0, 0),
      MkPacket(CodeB, 0, 0, 0), MkPacket(CodeB, 50, 0, 0) }

DiffChunks == { Wire(pk) : pk \in DiffPackets } \cup { Truncated }

InitDiff ==
    /\ inner \in SeqsUpTo(DiffChunks, MaxPackets)
    /\ rpos = 0
    /\ filter = NewDecoder(NilFilter)
    /\ data = FALSE
    /\ calls = << >>
    /\ hdr = ZeroHeader
    /\ fres = << >>
    /\ AggIdle
    /\ CodecIdle
    /\ duration \in Durations
    /\ dpc = "loop"
    /\ dstats = << >>
    /\ lines = << >>
    /\ derr = Nil
    /\ dseen = << >>

\* one turn of the loop of runDiff
DiffStep ==
    /\ dpc = "loop"
    /\ LET r == Decode(inner, rpos, filter, data)
           u == r.p.UMIHeader
       IN  /\ rpos' = r.pos
           /\ derr' = r.err
           /\ IF r.err # Nil
              THEN /\ dpc' = "done"
                   /\ UNCHANGED << dstats, lines, dseen >>
              ELSE /\ dpc' = "loop"
                   /\ dseen' = Append(dseen, r.p)
                   /\ IF u.Code \in DOMAIN dstats
                      THEN LET other == dstats[u.Code]
                               f == Timestamp(other.UMIHeader)
                               t == Timestamp(u)
                               delta == Sub(t, f)
                           IN  IF Emits(duration, delta)
                               THEN lines' = Append(lines,
                                        [Code |-> u.Code, From |-> f, To |-> t,
                                         Delta |-> delta, Id |-> Len(dseen) + 1])
                               ELSE UNCHANGED lines
                      ELSE UNCHANGED lines
                   /\ dstats' = Remember(dstats, r.p)
    /\ UNCHANGED << inner, filter, data, calls, hdr, fres, aggVars, duration, codecVars >>

NextDiff == DiffStep

SpecDiff == InitDiff /\ [][NextDiff]_vars

\* the packet of the same identity that came last before packet j, 0 if none
Predecessor(j) ==
    LET before == { x \in 1..(j - 1) : dseen[x].UMIHeader.Code = dseen[j].UMIHeader.Code }
    IN  IF before = {} THEN 0 ELSE SetMax(before)

\* the lines written for packet j
LinesOf(j) == { e \in 1..Len(lines) : lines[e].Id = j }

DeltaOf(j) == Timestamp(dseen[j].UMIHeader) - Timestamp(dseen[Predecessor(j)].UMIHeader)

\* C11: a packet with a predecessor gets a line exactly when the minimum duration
\* is not positive or the time from the predecessor to it is at least the minimum
\* duration; the line holds the identity, both timestamps and their difference; a
\* packet without a predecessor gets no line.
C11_GapThreshold ==
    \A j \in 1..Len(dseen) :
        /\ Cardinality(LinesOf(j)) <= 1
        /\ Predecessor(j) = 0 => LinesOf(j) = {}
        /\ Predecessor(j) # 0 =>
              /\ LinesOf(j) # {} <=> (duration <= 0 \/ DeltaOf(j) >= duration)
              /\ \A e \in LinesOf(j) :
                    /\ lines[e].Code = dseen[j].UMIHeader.Code
                    /\ lines[e].From = Timestamp(dseen[Predecessor(j)].UMIHeader)
                    /\ lines[e].To = Timestamp(dseen[j].UMIHeader)
                    /\ lines[e].Delta = DeltaOf(j)

\* with a positive minimum duration: a gap equal to it is written, a negative one
\* is not
C11_Witness ==
    /\ duration = Gap
    /\ Len(dseen) = 3
    /\ Predecessor(2) = 1 /\ DeltaOf(2) = Gap /\ LinesOf(2) # {}
    /\ Predecessor(3) = 2 /\ DeltaOf(3) < 0 /\ LinesOf(3) = {}

\* the map after packet j: the last packet of each identity among the first j
LastSeen(j) ==
    LET codes == { dseen[x].UMIHeader.Code : x \in 1..j }
    IN  [c \in codes |->
            dseen[SetMax({ x \in 1..j : dseen[x].UMIHeader.Code = c })]]

\* C12: after each packet the map holds that packet for its identity and what it
\* held before for the others, a line written or not; a line relates its packet
\* to the packet of the same identity that came immediately before it.
C12_LastSeenOverwritten ==
    /\ dstats = LastSeen(Len(dseen))
    /\ \A e \in 1..Len(lines) :
          LET j == lines[e].Id
          IN  /\ Predecessor(j) # 0
              /\ lines[e].From = Timestamp(dseen[Predecessor(j)].UMIHeader)
              /\ lines[e].To = Timestamp(dseen[j].UMIHeader)

\* a pair too close to be written, then a line from the second packet of that
\* pair to the third
C12_Witness ==
    /\ duration = Gap
    /\ Len(dseen) = 3
    /\ Predecessor(2) = 1 /\ Predecessor(3) = 2
    /\ LinesOf(2) = {}
    /\ LinesOf(3) # {}
    /\ Timestamp(dseen[1].UMIHeader) # Timestamp(dseen[2].UMIHeader)
    /\ dstats[dseen[3].UMIHeader.Code] = dseen[3]

(***************************************************************************)
(* Claims about the channel between countPackets and runCount.             *)
(***************************************************************************)
\* every bucket left in the open map has been sent by the final range loop
AllFlushed == DOMAIN stats \subseteq ranged

\* the close happens once, in the producer's deferred call, and nothing is sent
\* after it; the consumer leaves its loop only on the closed and drained channel
CloseStep ==
    /\ closed => (closed' /\ q' = q /\ pc = "done" /\ pc' = "done")
    /\ closed' # closed => (pc = "close" /\ pc' = "done" /\ cons' = cons /\ received' = received)
    /\ cons' # cons => (cons' = "done" /\ closed /\ q = << >> /\ closed')

\* C13 as stated: the channel is closed only after end-of-stream with every open
\* bucket flushed, once and by the producer; nothing is sent after the close and
\* the consumer sees the close after every emitted bucket.
C13_ClosedOnlyAfterFlush ==
    /\ [](closed => (err = EOF /\ AllFlushed))
    /\ [](cons = "done" => (closed /\ q = << >>))
    /\ [][CloseStep]_vars

\* C13: the channel is closed once, by the producer, either after end-of-stream
\* with every open bucket flushed or after another error of Decode; nothing is
\* sent after the close and the consumer sees the close after every emitted bucket.
C13_CloseProtocol ==
    /\ [](closed => (err # Nil /\ (err = EOF => AllFlushed)))
    /\ [](cons = "done" => (closed /\ q = << >>))
    /\ [][CloseStep]_vars

\* closed after end-of-stream with two buckets flushed and received
C13_Witness ==
    /\ closed
    /\ err = EOF
    /\ Cardinality(DOMAIN stats) = 2
    /\ AllFlushed
    /\ Len(received) = 2
    /\ cons = "done"

\* a step taken while a bucket awaits the consumer: it is the consumer taking the
\* bucket, the producer staying where it is; a step that sends finds the
\* channel empty
BackpressureStep ==
    /\ q # << >> =>
          /\ rpos' = rpos
          /\ observed' = observed
          /\ stats' = stats
          /\ keys' = keys
          /\ pc' = pc
          /\ q' = << >>
          /\ received' = Append(received, q[1])
    /\ q' # q /\ q' # << >> => q = << >> /\ received' = received

\* C14: at most one bucket awaits the consumer; while one does, the producer
\* reads no packet and changes neither the open map nor keys, and the only step
\* is the consumer receiving that bucket, so buckets are received in the order
\* they were sent.
C14_Backpressure ==
    /\ [](Len(q) <= 1)
    /\ [][BackpressureStep]_vars

\* a second bucket awaits the consumer at the rollover, the first one received
C14_Witness ==
    /\ pc = "emit"
    /\ q # << >>
    /\ Len(received) = 1
    /\ tmp \in DOMAIN stats
    /\ q[1].origin = tmp

-----------------------------------------------------------------------------
(* SpecCodec: Packet.Marshal, decodePacket on its result, and decodePacket *)
(* on a buffer of any length.                                              *)

\* the longest payload of a packet given to Marshal
MaxData == 2

\* headers whose fields differ in every byte, so that a byte order shows
CodecHeaders ==
    { [Size |-> 16909060, Code |-> CodeA, Orbit |-> 84281096, State |-> 4, Type |-> 14,
       Len |-> 0, Unit |-> 2314, Coarse |-> 185339150, Fine |-> 15],
      [Size |-> 28, Code |-> CodeC, Orbit |-> 1, State |-> 0, Type |-> 1,
       Len |-> 0, Unit |-> 256, Coarse |-> 65536, Fine |-> 0] }

CodecPayload(n) == [j \in 1..n |-> 201 - j]

\* every header with every declared length and every payload length
CodecPackets ==
    { [UMIHeader |-> [h EXCEPT !.Len = l], Data |-> CodecPayload(n)] :
        h \in CodecHeaders, l \in 0..(MaxData + 1), n \in 0..MaxData }

\* a record of 28 bytes (declared length 3), whole, cut short and followed by a byte
CodecBuffers ==
    LET w == Wire(MkPacket(CodeB, 50, 7, 3))
    IN  { SubSeq(w, 1, n) : n \in { 0, 10, 24, 25, 26, 27, 28 } } \cup { w \o << 9 >> }

InitCodec ==
    /\ inner = << >>
    /\ rpos = 0
    /\ filter = NewDecoder(NilFilter)
    /\ data \in BOOLEAN
    /\ calls = << >>
    /\ hdr = ZeroHeader
    /\ fres = << >>
    /\ AggIdle
    /\ DiffIdle
    /\ pkt \in CodecPackets
    /\ buf \in CodecBuffers
    /\ mres = << >>
    /\ rres = << >>
    /\ dres = << >>

\* p.Marshal()
MarshalCall ==
    /\ mres = << >>
    /\ mres' = << Marshal(pkt) >>
    /\ UNCHANGED << decVars, calls, hdr, fres, diffVars, aggVars, pkt, buf, rres, dres >>

\* decodePacket on the buffer Marshal returned, with the payload
DecodeMarshalled ==
    /\ mres # << >>
    /\ rres = << >>
    /\ rres' = << decodePacket(mres[1].buf, TRUE) >>
    /\ UNCHANGED << decVars, calls, hdr, fres, diffVars, aggVars, pkt, buf, mres, dres >>

\* decodePacket(buf, data)
DecodeBuffer ==
    /\ dres = << >>
    /\ dres' = << decodePacket(buf, data) >>
    /\ UNCHANGED << decVars, calls, hdr, fres, diffVars, aggVars, pkt, buf, mres, rres >>

NextCodec ==
    \/ MarshalCall
    \/ DecodeMarshalled
    \/ DecodeBuffer

SpecCodec == InitCodec /\ [][NextCodec]_vars

\* C15 as stated: a packet with a payload is marshalled without error and decoded
\* back, with the payload, to the same packet.
C15_RoundTrip ==
    (rres # << >> /\ pkt.Data # << >>) =>
        /\ mres[1].err = Nil
        /\ rres[1].err = Nil
        /\ rres[1].p = pkt

\* C15: a packet with a payload whose Len field is the length of the payload is
\* marshalled without error and decoded back, with the payload, to the same packet.
C15_RoundTripDeclaredLen ==
    (rres # << >> /\ pkt.Data # << >> /\ pkt.UMIHeader.Len = Len(pkt.Data)) =>
        /\ mres[1].err = Nil
        /\ rres[1].err = Nil
        /\ rres[1].p = pkt

\* a packet of two payload bytes with multi-byte header fields, decoded back
C15_Witness ==
    /\ rres # << >>
    /\ Len(pkt.Data) = 2
    /\ pkt.UMIHeader.Len = 2
    /\ pkt.UMIHeader.Size = 16909060
    /\ rres[1].err = Nil
    /\ rres[1].p = pkt

\* C16: Marshal fails with ErrEmpty exactly for an empty payload; otherwise its
\* buffer is the encoded header followed by the whole payload, 25 + len(payload)
\* bytes, whatever the Len field.
C16_MarshalSize ==
    mres # << >> =>
        /\ mres[1].err = ErrEmpty <=> pkt.Data = << >>
        /\ pkt.Data # << >> =>
              /\ mres[1].err = Nil
              /\ Len(mres[1].buf) = UMIHeaderLen + Len(pkt.Data)
              /\ mres[1].buf = encodeHeader(pkt.UMIHeader) \o pkt.Data

\* the length a buffer of at least 25 bytes declares in bytes 23 and 24
DeclaredLen(b) == b[24] * 256 + b[25]

\* C17: decodePacket fails with ErrShortBuffer on a buffer shorter than 25 bytes
\* or shorter than 25 bytes plus the declared length, with or without the payload
\* asked for; on a buffer shorter than 25 bytes the header returned is zero.
C17_ShortBuffer ==
    dres # << >> =>
        /\ Len(buf) < UMIHeaderLen =>
              dres[1].err = ErrShortBuffer /\ dres[1].p = ZeroPacket
        /\ (Len(buf) >= UMIHeaderLen /\ Len(buf) < UMIHeaderLen + DeclaredLen(buf)) =>
              dres[1].err = ErrShortBuffer

RECURSIVE SumCount(_)
SumCount(s) == IF s = << >> THEN 0 ELSE Head(s).Coze.Count + SumCount(Tail(s))

RECURSIVE SumSize(_)
SumSize(s) == IF s = << >> THEN 0 ELSE Head(s).Coze.Size + SumSize(Tail(s))

\* C18: when the stream has ended with end-of-stream, the counts of the buckets
\* received add up to the number of packets Decode returned and their sizes to the
\* sum of the Len fields of these packets; every packet is in exactly one bucket
\* and no bucket is empty.
C18_Conservation ==
    StreamEnded =>
        /\ q = << >>
        /\ SumCount(received) = Len(observed)
        /\ SumSize(received) = SumLen(Obs)
        /\ \A j \in Obs :
              Cardinality({ e \in 1..Len(received) : j \in received[e].Coze.Ids }) = 1
        /\ \A e \in 1..Len(received) :
              /\ received[e].Coze.Count > 0
              /\ received[e].Coze.Count = Cardinality(received[e].Coze.Ids)

\* three packets of two identities with payloads, the second earlier than the
\* first, in three buckets
C18_Witness ==
    /\ StreamEnded
    /\ i = Window
    /\ Len(observed) = 3
    /\ Cardinality(Identities) = 2
    /\ TimeOf(2) < TimeOf(1)
    /\ SumLen(Obs) > 0
    /\ Len(received) = 3

\* Decode has failed with an error other than io.EOF
DecodeFailed == err # Nil /\ err # EOF

\* the packets held by the buckets of the open map
OpenIds == UNION { stats[key].Ids : key \in DOMAIN stats }

\* the packets held by the buckets sent
EmittedIds == UNION { Emitted[e].Coze.Ids : e \in 1..Len(Emitted) }

\* after the failure nothing is read or sent and the open map stays as it is
FailedStep ==
    DecodeFailed =>
        /\ rpos' = rpos
        /\ err' = err
        /\ stats' = stats
        /\ q' = q
        /\ received' = received

\* C19: once Decode has failed with an error other than io.EOF, countPackets
\* reads no more, sends none of the buckets of the open map and closes the
\* channel; the consumer leaves its loop as on end-of-stream, and the packets of
\* the open buckets are in no bucket received.
C19_DecodeErrorDropsOpenBuckets ==
    /\ [](DecodeFailed =>
            /\ pc \in { "close", "done" }
            /\ pc = "done" <=> closed
            /\ q = << >>
            /\ ranged = {}
            /\ OpenIds \cap EmittedIds = {}
            /\ cons = "done" => closed)
    /\ [][FailedStep]_vars

\* a record cut short after a packet and before another record: the bucket left
\* in the map, nothing received, the channel closed and the consumer out of its loop
C19_Witness ==
    /\ err = ErrShortBuffer
    /\ pc = "done"
    /\ closed
    /\ cons = "done"
    /\ received = << >>
    /\ Cardinality(DOMAIN stats) = 1
    /\ OpenIds # {}
    /\ rpos < Len(inner)

-----------------------------------------------------------------------------
(* SpecLive: countPackets over a Decoder with a filter, its goroutine and  *)
(* the receiving one scheduled fairly, the receiver free to stop.          *)

LivePackets ==
    { MkPacket(CodeA, 0, 0, 0), MkPacket(CodeA, 150, 0, 3), MkPacket(CodeB, 0, 0, 0) }

LiveChunks == { Wire(pk) : pk \in LivePackets } \cup { Truncated }

LiveFilters == { NilFilter, WithCodes(<< CodeA >>) }

InitLive ==
    /\ inner \in SeqsUpTo(LiveChunks, MaxPackets)
    /\ rpos = 0
    /\ filter \in { NewDecoder(f) : f \in LiveFilters }
    /\ data = FALSE
    /\ calls = << >>
    /\ hdr = ZeroHeader
    /\ fres = << >>
    /\ i \in Widths
    /\ pc = "decode"
    /\ p = ZeroPacket
    /\ k = ZeroKey
    /\ tmp = ZeroKey
    /\ cz = ZeroCoze
    /\ stats = EmptyMap
    /\ keys = EmptyMap
    /\ ranged = {}
    /\ err = Nil
    /\ q = << >>
    /\ closed = FALSE
    /\ received = << >>
    /\ cons = "range"
    /\ observed = << >>
    /\ DiffIdle
    /\ CodecIdle

\* the receiver of the channel leaves it unread from now on
Stop ==
    /\ cons = "range"
    /\ cons' = "stopped"
    /\ UNCHANGED << decVars, harnessVars, i, pc, p, k, tmp, cz, stats, keys, ranged, err,
                    q, closed, received, observed >>

NextLive ==
    \/ Fetch
    \/ Delete
    \/ SetKey
    \/ Accum
    \/ Sweep
    \/ SweepEnd
    \/ Close
    \/ Recv
    \/ RangeEnd
    \/ Stop

\* the steps of the goroutine of countPackets, and those of the receiving loop
Producer == Fetch \/ Delete \/ SetKey \/ Accum \/ Sweep \/ SweepEnd \/ Close
Consumer == Recv \/ RangeEnd

\* a goroutine that can run does run
Fairness == WF_vars(Producer) /\ WF_vars(Consumer)

SpecLive == InitLive /\ [][NextLive]_vars /\ Fairness

\* a step taken while the receiver has stopped and a bucket is pending leaves the
\* producer where it is
BlockedStep ==
    (cons = "stopped" /\ q # << >>) =>
        /\ q' = q
        /\ pc' = pc
        /\ rpos' = rpos
        /\ stats' = stats
        /\ closed' = closed
        /\ cons' = cons

\* C20: with a receiver that never stops, countPackets closes the channel and
\* ends, its Decode calls reading the source record by record and not past its
\* end; once the receiver has stopped with a bucket pending, the producer stays at
\* its send and the channel is never closed, and a channel closed beside a
\* stopped receiver has no bucket pending.
C20_Termination ==
    /\ <>(cons = "stopped" \/ (closed /\ pc = "done"))
    /\ [](rpos <= Len(inner))
    /\ []((cons = "stopped" /\ q # << >>) => (~closed /\ pc \in { "emit", "sweep" }))
    /\ []((cons = "stopped" /\ closed) => q = << >>)
    /\ [][BlockedStep]_vars

\* two rejected records and an accepted one read by one Decode, the bucket
\* received and the channel closed
C20_Witness ==
    /\ filter = WithCodes(<< CodeA >>)
    /\ Len(inner) = 3
    /\ Len(observed) = 1
    /\ observed[1] = [UMIHeader |-> MkPacket(CodeA, 0, 0, 0).UMIHeader, Data |-> << >>]
    /\ inner[3] = Wire(MkPacket(CodeA, 0, 0, 0))
    /\ closed
    /\ pc = "done"
    /\ cons = "done"
    /\ Len(received) = 1

=============================================================================
